---- MODULE Spec2Model ----
(***************************************************************************)
(* The avatar creation pipeline of data/avatar_creation_pipeline.py: the   *)
(* two entry points create_persona_only and create_avatar_image, the PDF   *)
(* extraction and normalization they share, and the provider calls they    *)
(* issue.  Python strings are TLA+ strings; an Optional value is a record  *)
(* (None, or Str(s)); a dict is a record whose DOMAIN is its set of keys.  *)
(***************************************************************************)
EXTENDS Integers, Sequences, FiniteSets, TLC

\* ------------------------------------------------------------------ bounds
\* Largest number of uploaded documents in one request.
MaxFiles == 2
\* Number of invocation slots of the process.
NumInv == 2

Inv == 1..NumInv

\* ------------------------------------------------------- Python values
None == [t |-> "None"]
Str(s) == [t |-> "str", v |-> s]
IsNone(x) == x.t = "None"
\* Python truthiness of an Optional[str]: None and "" are falsy.
Truthy(x) == x.t = "str" /\ x.v # ""
\* str(x) as the f-string / str.format conversion does it.
PyStr(x) == IF IsNone(x) THEN "None" ELSE x.v

Digit(d) ==
    CASE d = 0 -> "0" [] d = 1 -> "1" [] d = 2 -> "2" [] d = 3 -> "3"
      [] d = 4 -> "4" [] d = 5 -> "5" [] d = 6 -> "6" [] d = 7 -> "7"
      [] d = 8 -> "8" [] d = 9 -> "9"

RECURSIVE IntStr(_)
\* str(n) of a non-negative int, in decimal.
IntStr(n) == IF n < 10 THEN Digit(n) ELSE IntStr(n \div 10) \o Digit(n % 10)

Char(s, i) == SubSeq(s, i, i)

LowerChar(c) ==
    CASE c = "A" -> "a" [] c = "B" -> "b" [] c = "C" -> "c" [] c = "D" -> "d"
      [] c = "E" -> "e" [] c = "F" -> "f" [] c = "G" -> "g" [] c = "H" -> "h"
      [] c = "I" -> "i" [] c = "J" -> "j" [] c = "K" -> "k" [] c = "L" -> "l"
      [] c = "M" -> "m" [] c = "N" -> "n" [] c = "O" -> "o" [] c = "P" -> "p"
      [] c = "Q" -> "q" [] c = "R" -> "r" [] c = "S" -> "s" [] c = "T" -> "t"
      [] c = "U" -> "u" [] c = "V" -> "v" [] c = "W" -> "w" [] c = "X" -> "x"
      [] c = "Y" -> "y" [] c = "Z" -> "z" [] OTHER -> c

RECURSIVE Lower(_)
\* str.lower()
Lower(s) == IF s = "" THEN "" ELSE LowerChar(Char(s, 1)) \o Lower(Tail(s))

\* str.endswith(suffix)
EndsWith(s, suffix) ==
    /\ Len(s) >= Len(suffix)
    /\ SubSeq(s, Len(s) - Len(suffix) + 1, Len(s)) = suffix

Whitespace == {" ", "\n", "\t", "\r"}

RECURSIVE LStrip(_)
LStrip(s) ==
    IF s # "" /\ Char(s, 1) \in Whitespace THEN LStrip(Tail(s)) ELSE s

RECURSIVE RStrip(_)
RStrip(s) ==
    IF s # "" /\ Char(s, Len(s)) \in Whitespace
    THEN RStrip(SubSeq(s, 1, Len(s) - 1))
    ELSE s

\* str.strip()
Strip(s) == RStrip(LStrip(s))

RECURSIVE Join(_, _)
\* sep.join(parts)
Join(sep, parts) ==
    IF parts = <<>> THEN ""
    ELSE IF Len(parts) = 1 THEN parts[1]
    ELSE parts[1] \o sep \o Join(sep, Tail(parts))

\* ------------------------------------------------------------ prompts
EXPERT_WITNESS_SYSTEM_PROMPT ==
    "You are an expert witness creator. Create professional expert witness personas based on legal case content."

\* EXPERT_WITNESS_USER_PROMPT_TEMPLATE.format(user_query=...)
EXPERT_WITNESS_USER_PROMPT_TEMPLATE(user_query) ==
    "Create a professional expert witness persona for this case: " \o PyStr(user_query)

PERSONA_SUMMARY_SYSTEM_PROMPT ==
    "You are an expert at creating concise visual descriptions for professional headshots."

\* PERSONA_SUMMARY_USER_PROMPT_TEMPLATE.format(persona=...)
PERSONA_SUMMARY_USER_PROMPT_TEMPLATE(persona) ==
    "Based on this expert witness persona, create a brief 1-2 sentence description focusing on their appearance, profession, and demeanor for generating a professional headshot photo:\n\n"
        \o persona \o "\n\nDescription for headshot:"

ImagePromptHead == "Professional headshot portrait: "
ImagePromptTail ==
    ". High quality, professional lighting, business attire, neutral background."

\* Mutant of get_simple_image_prompt: the default argument is used instead of
\* the summary.
ImagePromptOfDefault(persona_summary) == ImagePromptHead \o "" \o ImagePromptTail

get_simple_image_prompt(persona_summary) ==
    ImagePromptHead \o persona_summary \o ImagePromptTail

\* ------------------------------------------------------ configuration
DEFAULT_CONFIG ==
    [openai |-> [chat_model |-> "gpt-4o", max_tokens |-> 1000, temperature |-> "0.7"],
     together_ai |-> [image_model |-> "black-forest-labs/FLUX.1-schnell",
                      max_tokens |-> 512, temperature |-> "0.7"]]

\* What toml.load can return for a config.toml that parses: every section and
\* key (and an image size and step count), one section only, and sections
\* under other names.
ParsedConfigs ==
    { [openai |-> [chat_model |-> "gpt-4o-mini", max_tokens |-> 800, temperature |-> "0.5"],
       together_ai |-> [image_model |-> "stabilityai/sdxl", max_tokens |-> 512,
                        temperature |-> "0.7", width |-> 512, height |-> 512,
                        steps |-> 4]],
      [openai |-> [chat_model |-> "gpt-4o-mini", max_tokens |-> 800, temperature |-> "0.5"]],
      [chat |-> [model |-> "gpt-4o-mini", max_tokens |-> 800, temperature |-> "0.5"],
       image |-> [model |-> "stabilityai/sdxl", width |-> 512, height |-> 512, steps |-> 4]] }

\* The states of the config file and of the toml import at process start.
ConfigFileStates ==
    { [toml_available |-> FALSE], [toml_available |-> TRUE, exists |-> FALSE] }
    \cup { [toml_available |-> TRUE, exists |-> TRUE, raises |-> TRUE] }
    \cup { [toml_available |-> TRUE, exists |-> TRUE, raises |-> FALSE, parsed |-> c] :
             c \in ParsedConfigs }

load_config(file) ==
    IF ~file.toml_available THEN DEFAULT_CONFIG
    ELSE IF ~file.exists THEN DEFAULT_CONFIG
    ELSE IF file.raises THEN DEFAULT_CONFIG
    ELSE file.parsed

\* The KeyError (as the str() of it) that reading section[key] for the keys in
\* order raises on cfg, or None when every lookup succeeds.
RECURSIVE ConfigKeyError(_, _, _)
ConfigKeyError(cfg, section, keys) ==
    IF section \notin DOMAIN cfg THEN Str("'" \o section \o "'")
    ELSE IF keys = <<>> THEN None
    ELSE IF Head(keys) \notin DOMAIN cfg[section] THEN Str("'" \o Head(keys) \o "'")
    ELSE ConfigKeyError(cfg, section, Tail(keys))

\* ---------------------------------------------------------- documents
\* An uploaded file: its filename and what PyPDF2 makes of its bytes, either an
\* exception or the pages' extract_text() results.
Documents ==
    { [filename |-> "case.pdf", parses |-> TRUE,
       pages |-> <<" Beam fatigue.", "Weld crack. ">>],
      [filename |-> "Notes.PDF", parses |-> TRUE, pages |-> <<"Site notes">>],
      [filename |-> "case.pdf.txt", parses |-> TRUE, pages |-> <<"plain">>],
      [filename |-> "scan.pdf", parses |-> TRUE, pages |-> <<"">>],
      [filename |-> "bad.pdf", parses |-> FALSE, error |-> "EOF marker not found"] }

\* Every upload list of at most MaxFiles documents.
FileLists == UNION { [1..n -> Documents] : n \in 0..MaxFiles }

RECURSIVE PageText(_)
\* text = ""; for page in pdf_reader.pages: text += page.extract_text() + "\n"
PageText(pages) ==
    IF pages = <<>> THEN "" ELSE Head(pages) \o "\n" \o PageText(Tail(pages))

\* A function's result: a value, or the exception it raised.
Ret(v) == [raised |-> FALSE, value |-> v]
Raise(e) == [raised |-> TRUE, error |-> e]

extract_text_from_pdf(file) ==
    IF ~file.parses
    THEN Raise("Error extracting text from " \o file.filename \o ": " \o file.error)
    ELSE Ret(Strip(PageText(file.pages)))

\* Mutant of IsPdfName: the suffix check without .lower().
IsPdfNameCaseSensitive(filename) == EndsWith(filename, ".pdf")

IsPdfName(filename) == EndsWith(Lower(filename), ".pdf")

\* The section process_multiple_pdfs appends for one file.
Section(filename, text) == "--- Content from " \o filename \o " ---\n" \o text

\* Mutant of ProcessOnePdf: the section is put in front of the list.
ProcessOnePdfPrepends(all_text, file) ==
    IF ~IsPdfName(file.filename)
    THEN Raise("File " \o file.filename \o " is not a PDF")
    ELSE LET text == extract_text_from_pdf(file)
         IN  IF text.raised THEN text
             ELSE Ret(<<Section(file.filename, text.value)>> \o all_text)

\* One iteration of the loop of process_multiple_pdfs on file, all_text being
\* the sections so far: the list with the file's section appended, or the
\* exception raised.
ProcessOnePdf(all_text, file) ==
    IF ~IsPdfName(file.filename)
    THEN Raise("File " \o file.filename \o " is not a PDF")
    ELSE LET text == extract_text_from_pdf(file)
         IN  IF text.raised THEN text
             ELSE Ret(Append(all_text, Section(file.filename, text.value)))

\* return "\n\n".join(all_text)
CombineSections(all_text) == Join("\n\n", all_text)

\* Mutant of FilesProcessed: the filenames in reverse order.
FilesProcessedReversed(fs) == [n \in 1..Len(fs) |-> fs[Len(fs) + 1 - n].filename]

\* [f.filename for f in files] if files else []
FilesProcessed(fs) == [n \in 1..Len(fs) |-> fs[n].filename]

PdfSourceInfo(fs) == "from " \o IntStr(Len(fs)) \o " PDF file(s)"
QueryAndPdfSourceInfo(fs) == "from text query and " \o IntStr(Len(fs)) \o " PDF file(s)"

\* Mutant of NormalizeWithFiles: the query is put after the document text.
NormalizeWithFilesQueryLast(q, fs, pdf_content) ==
    IF Truthy(q)
    THEN [content |-> Str(pdf_content \o "\n\n" \o "Additional context: " \o q.v),
          source_info |-> QueryAndPdfSourceInfo(fs)]
    ELSE [content |-> Str(pdf_content), source_info |-> PdfSourceInfo(fs)]

\* Lines 182-188 (and 245-251): content and source_info once the PDFs are combined.
NormalizeWithFiles(q, fs, pdf_content) ==
    IF Truthy(q)
    THEN [content |-> Str("Additional context: " \o q.v \o "\n\n" \o pdf_content),
          source_info |-> QueryAndPdfSourceInfo(fs)]
    ELSE [content |-> Str(pdf_content), source_info |-> PdfSourceInfo(fs)]

\* Mutant of NormalizeTextOnly: the query is wrapped as in the branch with files.
NormalizeTextOnlyAsContext(q) ==
    [content |-> Str("Additional context: " \o PyStr(q)),
     source_info |-> "from text query"]

\* Lines 190-191 (and 253-254): no files.
NormalizeTextOnly(q) == [content |-> q, source_info |-> "from text query"]

\* ----------------------------------------------------------- requests
LongQuery50 == "Construction defect case: cracked slab, phase two. "
\* A query longer than the preview that generate_expert_persona returns.
LongQuery == LongQuery50 \o LongQuery50 \o LongQuery50 \o LongQuery50 \o "!"

\* The text_query argument: absent, empty, short, long.
TextQueries == { None, Str(""), Str("Construction defect case"), Str(LongQuery) }

EntryPoints == { "create_persona_only", "create_avatar_image" }

\* ------------------------------------------------- provider behaviour
\* What openai_client.chat.completions.create does: raises (transport failure,
\* timeout, non-success status) or returns a completion with its choices' texts.
ChatResponses ==
    { Raise("Request timed out."),
      Raise("Error code: 500 - internal server error"),
      [raised |-> FALSE, choices |-> <<>>],
      [raised |-> FALSE, choices |-> <<"Dr. Ada Reyes, P.E.">>],
      [raised |-> FALSE, choices |-> <<"  Calm engineer, grey suit. \n", "second choice">>] }

\* What requests.post to the image provider does: raises, or returns a response
\* with its status code, body text and parsed JSON.
ImageResponses ==
    { Raise("Read timed out. (read timeout=60)"),
      [raised |-> FALSE, status_code |-> 500, text |-> "upstream error",
       json |-> [error |-> "upstream error"]],
      [raised |-> FALSE, status_code |-> 200, text |-> "{}",
       json |-> [id |-> "r1"]],
      [raised |-> FALSE, status_code |-> 200, text |-> "{data: []}",
       json |-> [data |-> <<>>]],
      [raised |-> FALSE, status_code |-> 200, text |-> "{data: [..]}",
       json |-> [data |-> << [url |-> "https://img.example/1.png"],
                             [url |-> "https://img.example/2.png"] >>]] }

\* -------------------------------------------------------------- state
VARIABLES
    environ,         \* os.environ: the credentials that are set
    CONFIG,          \* the module-level CONFIG = load_config()
    blocked,         \* the invocation whose synchronous provider call holds the
                     \* event-loop thread, or 0
    pc,              \* where each invocation is
    entry,           \* the entry point it runs
    text_query,      \* its text_query argument
    files,           \* its files argument
    all_text,        \* process_multiple_pdfs: the sections so far
    content,         \* the normalized content
    source_info,     \* the provenance label
    expert_persona,  \* the persona narrative
    persona_summary, \* the trimmed visual summary
    image_prompt,    \* the prompt of the image request
    calls,           \* the provider requests it has issued, in order
    responses,       \* what came back for them, in order
    reads,           \* how many uploads it has read
    outcome,         \* the dict it returns
    status_reply     \* what the last call of get_avatar_status did

globals == <<environ, CONFIG>>
locals == <<entry, text_query, files, all_text, content, source_info,
            expert_persona, persona_summary, image_prompt, reads>>
vars == <<environ, CONFIG, blocked, pc, entry, text_query, files, all_text,
          content, source_info, expert_persona, persona_summary, image_prompt,
          calls, responses, reads, outcome, status_reply>>

CredentialNames == { "OPENAI_API_KEY", "TOGETHER_API_KEY" }

\* os.getenv(name)
getenv(name) == IF name \in DOMAIN environ THEN Str(environ[name]) ELSE None

NoOutcome == [status |-> "none"]
NoReply == [called |-> FALSE]

Init ==
    /\ environ \in UNION { [S -> {"sk-test"}] : S \in SUBSET CredentialNames }
    /\ \E file \in ConfigFileStates : CONFIG = load_config(file)
    /\ blocked = 0
    /\ pc = [i \in Inv |-> "idle"]
    /\ entry = [i \in Inv |-> "none"]
    /\ text_query = [i \in Inv |-> None]
    /\ files = [i \in Inv |-> <<>>]
    /\ all_text = [i \in Inv |-> <<>>]
    /\ content = [i \in Inv |-> None]
    /\ source_info = [i \in Inv |-> ""]
    /\ expert_persona = [i \in Inv |-> None]
    /\ persona_summary = [i \in Inv |-> None]
    /\ image_prompt = [i \in Inv |-> None]
    /\ calls = [i \in Inv |-> <<>>]
    /\ responses = [i \in Inv |-> <<>>]
    /\ reads = [i \in Inv |-> 0]
    /\ outcome = [i \in Inv |-> NoOutcome]
    /\ status_reply = NoReply

\* ------------------------------------------------------- result dicts
MissingOpenAIKey ==
    [status |-> "error", message |-> "OpenAI API key not found in environment variables"]
MissingTogetherKey ==
    [status |-> "error",
     message |-> "Together AI API key not found in environment variables"]
\* except Exception as e, lines 157-158 and 204-205
PersonaError(e) == [status |-> "error", message |-> "Error creating persona: " \o e]
\* except Exception as e, lines 341-342
AvatarError(e) == [status |-> "error", message |-> "Error creating avatar: " \o e]

\* Mutant of EntryError: the except clause is missing, the exception escapes.
EntryErrorEscapes(i, e) == [status |-> "raised", exception |-> e]

\* The except clause of the entry point invocation i runs.
EntryError(i, e) ==
    IF entry[i] = "create_persona_only" THEN PersonaError(e) ELSE AvatarError(e)

\* ------------------------------------------------- program constants
PreviewLen == 200
SummaryMaxTokens == 100
ImageWidth == 1024
ImageHeight == 768
ImageSteps == 3
ImageCount == 1
ImageTimeout == 60
HttpOk == 200

\* --------------------------------------------------- provider requests
ChatRequest(model, system, user, max_tokens, temperature) ==
    [api |-> "chat.completions", model |-> model, system |-> system, user |-> user,
     max_tokens |-> max_tokens, temperature |-> temperature]

\* The persona request, lines 133-143 and 266-276.
PersonaRequest(c) ==
    ChatRequest(CONFIG.openai.chat_model, EXPERT_WITNESS_SYSTEM_PROMPT,
                EXPERT_WITNESS_USER_PROMPT_TEMPLATE(c),
                CONFIG.openai.max_tokens, CONFIG.openai.temperature)

\* The summary request, lines 281-293.
SummaryRequest(persona) ==
    ChatRequest(CONFIG.openai.chat_model, PERSONA_SUMMARY_SYSTEM_PROMPT,
                PERSONA_SUMMARY_USER_PROMPT_TEMPLATE(persona),
                SummaryMaxTokens, "0.3")

\* The image request, lines 300-316.
ImageRequest(prompt) ==
    [api |-> "images.generations",
     url |-> "https://api.together.xyz/v1/images/generations",
     model |-> CONFIG.together_ai.image_model, prompt |-> prompt,
     width |-> ImageWidth, height |-> ImageHeight, steps |-> ImageSteps,
     n |-> ImageCount, response_format |-> "url", timeout |-> ImageTimeout]

\* content[:200] + "..." if len(content) > 200 else content
QueryPreview(c) ==
    IF Len(c) > PreviewLen THEN SubSeq(c, 1, PreviewLen) \o "..." ELSE c

\* Mutant of PersonaResult: the dict is built with the avatar's keys, the
\* summary and the image left empty.
PersonaResultAvatarShaped(r, c, src) ==
    IF r.raised THEN PersonaError(r.error)
    ELSE IF r.choices = <<>> THEN PersonaError("list index out of range")
    ELSE IF IsNone(c) THEN PersonaError("object of type 'NoneType' has no len()")
    ELSE [status |-> "ok",
          message |-> "Expert witness persona created successfully " \o src,
          data |-> [persona |-> r.choices[1],
                    persona_summary |-> "",
                    image_url |-> "",
                    query |-> QueryPreview(c.v),
                    models_used |-> [chat |-> CONFIG.openai.chat_model]]]

\* Lines 145-158 of generate_expert_persona: the dict it returns for response r
\* of the persona call.
PersonaResult(r, c, src) ==
    IF r.raised THEN PersonaError(r.error)
    ELSE IF r.choices = <<>> THEN PersonaError("list index out of range")
    ELSE IF IsNone(c) THEN PersonaError("object of type 'NoneType' has no len()")
    ELSE [status |-> "ok",
          message |-> "Expert witness persona created successfully " \o src,
          data |-> [persona |-> r.choices[1],
                    query |-> QueryPreview(c.v),
                    models_used |-> [chat |-> CONFIG.openai.chat_model]]]

\* Mutant of WithFilesProcessed: files_processed is added whatever the status.
WithFilesProcessedAlways(result, fs) ==
    IF result.status = "ok"
    THEN [result EXCEPT !.data =
            [key \in DOMAIN result.data \cup {"files_processed"} |->
                IF key = "files_processed" THEN FilesProcessed(fs)
                ELSE result.data[key]]]
    ELSE [status |-> result.status, message |-> result.message,
          data |-> [files_processed |-> FilesProcessed(fs)]]

\* Lines 196-202 of create_persona_only: files_processed added to an ok result.
WithFilesProcessed(result, fs) ==
    IF result.status = "ok"
    THEN [result EXCEPT !.data =
            [key \in DOMAIN result.data \cup {"files_processed"} |->
                IF key = "files_processed" THEN FilesProcessed(fs)
                ELSE result.data[key]]]
    ELSE result

\* Lines 327-339 of create_avatar_image.
AvatarResult(i, image_url) ==
    [status |-> "ok",
     message |-> "Expert witness avatar created successfully " \o source_info[i],
     data |-> [persona |-> expert_persona[i].v,
               persona_summary |-> persona_summary[i].v,
               image_url |-> image_url,
               query |-> IF Truthy(text_query[i]) THEN text_query[i].v ELSE "PDF content",
               files_processed |-> FilesProcessed(files[i]),
               models_used |-> [chat |-> CONFIG.openai.chat_model,
                                image |-> CONFIG.together_ai.image_model],
               image_prompt |-> image_prompt[i].v]]

\* Mutant of ImageResult: an empty data list gives an ok dict with an empty
\* image_url.
ImageResultEmptyOk(i, r) ==
    IF r.raised THEN AvatarError(r.error)
    ELSE IF r.status_code # HttpOk
    THEN [status |-> "error",
          message |-> "Together AI API error: " \o IntStr(r.status_code)
                        \o " - " \o r.text]
    ELSE IF "data" \notin DOMAIN r.json THEN AvatarError("'data'")
    ELSE IF r.json.data = <<>> THEN AvatarResult(i, "")
    ELSE AvatarResult(i, r.json.data[1].url)

\* Lines 318-342 of create_avatar_image: the dict it returns for response r of
\* the image request.
ImageResult(i, r) ==
    IF r.raised THEN AvatarError(r.error)
    ELSE IF r.status_code # HttpOk
    THEN [status |-> "error",
          message |-> "Together AI API error: " \o IntStr(r.status_code)
                        \o " - " \o r.text]
    ELSE IF "data" \notin DOMAIN r.json THEN AvatarError("'data'")
    ELSE IF r.json.data = <<>> THEN AvatarError("list index out of range")
    ELSE AvatarResult(i, r.json.data[1].url)

\* ------------------------------------------------------------ actions
\* Mutant of Settle: the result is kept in a module-level variable that the
\* invocations share, so every invocation that has returned holds the last one.
SettleShared(i, out) ==
    /\ pc' = [pc EXCEPT ![i] = "done"]
    /\ outcome' = [j \in Inv |-> IF j = i \/ pc[j] = "done" THEN out ELSE outcome[j]]

\* Invocation i returns dict out.
Settle(i, out) ==
    /\ pc' = [pc EXCEPT ![i] = "done"]
    /\ outcome' = [outcome EXCEPT ![i] = out]

\* Invocation i issues provider request req and waits for its response at
\* label: the call is synchronous, so it holds the event-loop thread.
Issue(i, req, label) ==
    /\ calls' = [calls EXCEPT ![i] = Append(@, req)]
    /\ blocked' = i
    /\ pc' = [pc EXCEPT ![i] = label]

\* A caller invokes entry point e with text_query q and files fs.
Call(i, e, q, fs) ==
    /\ pc[i] = "idle"
    /\ blocked = 0
    /\ pc' = [pc EXCEPT ![i] = "start"]
    /\ entry' = [entry EXCEPT ![i] = e]
    /\ text_query' = [text_query EXCEPT ![i] = q]
    /\ files' = [files EXCEPT ![i] = fs]
    /\ UNCHANGED <<globals, status_reply, blocked, all_text, content, source_info, expert_persona,
                   persona_summary, image_prompt, calls, responses, reads, outcome>>

\* Mutant of GenerateExpertPersonaBegin: the credential is not checked before
\* the client is built and the call issued.
GenerateExpertPersonaBeginUnchecked(i, c) ==
    LET kerr == ConfigKeyError(CONFIG, "openai",
                               <<"chat_model", "max_tokens", "temperature">>)
    IN  IF ~IsNone(kerr)
        THEN Settle(i, PersonaError(kerr.v)) /\ UNCHANGED <<calls, blocked>>
        ELSE Issue(i, PersonaRequest(c), "gep_call") /\ UNCHANGED outcome

\* generate_expert_persona up to its provider call, lines 114-143.
GenerateExpertPersonaBegin(i, c) ==
    LET kerr == ConfigKeyError(CONFIG, "openai",
                               <<"chat_model", "max_tokens", "temperature">>)
    IN  IF ~Truthy(getenv("OPENAI_API_KEY"))
        THEN Settle(i, MissingOpenAIKey) /\ UNCHANGED <<calls, blocked>>
        ELSE IF ~IsNone(kerr)
        THEN Settle(i, PersonaError(kerr.v)) /\ UNCHANGED <<calls, blocked>>
        ELSE Issue(i, PersonaRequest(c), "gep_call") /\ UNCHANGED outcome

\* The first KeyError of the CONFIG lookups of lines 260-263, or None.
AvatarConfigKeyError ==
    LET chat == ConfigKeyError(CONFIG, "openai",
                               <<"chat_model", "max_tokens", "temperature">>)
    IN  IF ~IsNone(chat) THEN chat
        ELSE ConfigKeyError(CONFIG, "together_ai", <<"image_model">>)

\* create_avatar_image from the client's construction up to the persona call,
\* lines 257-276.
AvatarPersonaBegin(i, c) ==
    IF ~IsNone(AvatarConfigKeyError)
    THEN Settle(i, AvatarError(AvatarConfigKeyError.v)) /\ UNCHANGED <<calls, blocked>>
    ELSE Issue(i, PersonaRequest(c), "av_persona_call") /\ UNCHANGED outcome

\* create_persona_only, lines 174-194, up to process_multiple_pdfs or, with no
\* files, up to the provider call.
CreatePersonaOnlyBegin(i) ==
    /\ pc[i] = "start"
    /\ entry[i] = "create_persona_only"
    /\ blocked = 0
    /\ IF files[i] # <<>>
       THEN /\ pc' = [pc EXCEPT ![i] = "pdf"]
            /\ content' = [content EXCEPT ![i] = Str("")]
            /\ UNCHANGED <<source_info, calls, blocked, outcome>>
       ELSE LET n == NormalizeTextOnly(text_query[i])
            IN  /\ content' = [content EXCEPT ![i] = n.content]
                /\ source_info' = [source_info EXCEPT ![i] = n.source_info]
                /\ GenerateExpertPersonaBegin(i, n.content)
    /\ UNCHANGED <<globals, status_reply, entry, text_query, files, all_text, expert_persona,
                   persona_summary, image_prompt, responses, reads>>

\* Mutant of CreateAvatarImageBegin: the image credential is not checked at
\* the start.
CreateAvatarImageBeginChatKeyOnly(i) ==
    /\ pc[i] = "start"
    /\ entry[i] = "create_avatar_image"
    /\ blocked = 0
    /\ IF ~Truthy(getenv("OPENAI_API_KEY"))
       THEN Settle(i, MissingOpenAIKey)
            /\ UNCHANGED <<content, source_info, calls, blocked>>
       ELSE IF files[i] # <<>>
       THEN /\ pc' = [pc EXCEPT ![i] = "pdf"]
            /\ content' = [content EXCEPT ![i] = Str("")]
            /\ UNCHANGED <<source_info, calls, blocked, outcome>>
       ELSE LET n == NormalizeTextOnly(text_query[i])
            IN  /\ content' = [content EXCEPT ![i] = n.content]
                /\ source_info' = [source_info EXCEPT ![i] = n.source_info]
                /\ AvatarPersonaBegin(i, n.content)
    /\ UNCHANGED <<globals, status_reply, entry, text_query, files, all_text,
                   expert_persona, persona_summary, image_prompt, responses, reads>>

\* create_avatar_image, lines 221-254: the credential checks, then as above.
CreateAvatarImageBegin(i) ==
    /\ pc[i] = "start"
    /\ entry[i] = "create_avatar_image"
    /\ blocked = 0
    /\ IF ~Truthy(getenv("OPENAI_API_KEY"))
       THEN Settle(i, MissingOpenAIKey)
            /\ UNCHANGED <<content, source_info, calls, blocked>>
       ELSE IF ~Truthy(getenv("TOGETHER_API_KEY"))
       THEN Settle(i, MissingTogetherKey)
            /\ UNCHANGED <<content, source_info, calls, blocked>>
       ELSE IF files[i] # <<>>
       THEN /\ pc' = [pc EXCEPT ![i] = "pdf"]
            /\ content' = [content EXCEPT ![i] = Str("")]
            /\ UNCHANGED <<source_info, calls, blocked, outcome>>
       ELSE LET n == NormalizeTextOnly(text_query[i])
            IN  /\ content' = [content EXCEPT ![i] = n.content]
                /\ source_info' = [source_info EXCEPT ![i] = n.source_info]
                /\ AvatarPersonaBegin(i, n.content)
    /\ UNCHANGED <<globals, status_reply, entry, text_query, files, all_text, expert_persona,
                   persona_summary, image_prompt, responses, reads>>

\* One iteration of the loop of process_multiple_pdfs, lines 102-107: the
\* suffix check, the read and extraction of the next file, its section.
PdfStep(i) ==
    /\ pc[i] = "pdf"
    /\ blocked = 0
    /\ Len(all_text[i]) < Len(files[i])
    /\ LET file == files[i][Len(all_text[i]) + 1]
           r == ProcessOnePdf(all_text[i], file)
       IN  /\ reads' = [reads EXCEPT ![i] = IF IsPdfName(file.filename) THEN @ + 1 ELSE @]
           /\ IF r.raised
              THEN Settle(i, EntryError(i, r.error)) /\ UNCHANGED all_text
              ELSE /\ all_text' = [all_text EXCEPT ![i] = r.value]
                   /\ UNCHANGED <<pc, outcome>>
    /\ UNCHANGED <<globals, status_reply, blocked, entry, text_query, files, content, source_info,
                   expert_persona, persona_summary, image_prompt, calls, responses>>

\* process_multiple_pdfs returns (line 109); the entry point sets content and
\* source_info (lines 181-188, 244-251) and goes on to the persona call.
PdfDone(i) ==
    /\ pc[i] = "pdf"
    /\ blocked = 0
    /\ Len(all_text[i]) = Len(files[i])
    /\ LET n == NormalizeWithFiles(text_query[i], files[i], CombineSections(all_text[i]))
       IN  /\ content' = [content EXCEPT ![i] = n.content]
           /\ source_info' = [source_info EXCEPT ![i] = n.source_info]
           /\ IF entry[i] = "create_persona_only"
              THEN GenerateExpertPersonaBegin(i, n.content)
              ELSE AvatarPersonaBegin(i, n.content)
    /\ UNCHANGED <<globals, status_reply, entry, text_query, files, all_text, expert_persona,
                   persona_summary, image_prompt, responses, reads>>

\* The persona call of generate_expert_persona returns r; lines 145-158, then
\* create_persona_only's lines 196-202.
PersonaOnlyResponse(i, r) ==
    /\ pc[i] = "gep_call"
    /\ blocked = i
    /\ responses' = [responses EXCEPT ![i] = Append(@, r)]
    /\ blocked' = 0
    /\ expert_persona' = [expert_persona EXCEPT ![i] =
            IF ~r.raised /\ r.choices # <<>> THEN Str(r.choices[1]) ELSE @]
    /\ Settle(i, WithFilesProcessed(PersonaResult(r, content[i], source_info[i]),
                                    files[i]))
    /\ UNCHANGED <<globals, status_reply, entry, text_query, files, all_text, content, source_info,
                   persona_summary, image_prompt, calls, reads>>

\* Mutant of AvatarPersonaResponse: a failed persona call is swallowed and the
\* run goes on to the summary with an empty narrative.
AvatarPersonaResponseGoesOn(i, r) ==
    /\ pc[i] = "av_persona_call"
    /\ blocked = i
    /\ responses' = [responses EXCEPT ![i] = Append(@, r)]
    /\ LET narrative == IF r.raised \/ r.choices = <<>> THEN "" ELSE r.choices[1]
       IN  /\ expert_persona' = [expert_persona EXCEPT ![i] = Str(narrative)]
           /\ Issue(i, SummaryRequest(narrative), "av_summary_call")
           /\ UNCHANGED outcome
    /\ UNCHANGED <<globals, status_reply, entry, text_query, files, all_text, content, source_info,
                   persona_summary, image_prompt, reads>>

\* The persona call of create_avatar_image returns r; lines 278-293: the
\* narrative, then the summary request.
AvatarPersonaResponse(i, r) ==
    /\ pc[i] = "av_persona_call"
    /\ blocked = i
    /\ responses' = [responses EXCEPT ![i] = Append(@, r)]
    /\ IF r.raised
       THEN Settle(i, AvatarError(r.error)) /\ blocked' = 0
            /\ UNCHANGED <<expert_persona, calls>>
       ELSE IF r.choices = <<>>
       THEN Settle(i, AvatarError("list index out of range")) /\ blocked' = 0
            /\ UNCHANGED <<expert_persona, calls>>
       ELSE /\ expert_persona' = [expert_persona EXCEPT ![i] = Str(r.choices[1])]
            /\ Issue(i, SummaryRequest(r.choices[1]), "av_summary_call")
            /\ UNCHANGED outcome
    /\ UNCHANGED <<globals, status_reply, entry, text_query, files, all_text, content, source_info,
                   persona_summary, image_prompt, reads>>

\* The summary call returns r; lines 295-316: the trimmed summary, the image
\* prompt, then the image request.
AvatarSummaryResponse(i, r) ==
    /\ pc[i] = "av_summary_call"
    /\ blocked = i
    /\ responses' = [responses EXCEPT ![i] = Append(@, r)]
    /\ IF r.raised
       THEN Settle(i, AvatarError(r.error)) /\ blocked' = 0
            /\ UNCHANGED <<persona_summary, image_prompt, calls>>
       ELSE IF r.choices = <<>>
       THEN Settle(i, AvatarError("list index out of range")) /\ blocked' = 0
            /\ UNCHANGED <<persona_summary, image_prompt, calls>>
       ELSE LET summary == Strip(r.choices[1])
                prompt == get_simple_image_prompt(summary)
            IN  /\ persona_summary' = [persona_summary EXCEPT ![i] = Str(summary)]
                /\ image_prompt' = [image_prompt EXCEPT ![i] = Str(prompt)]
                /\ Issue(i, ImageRequest(prompt), "av_image_call")
                /\ UNCHANGED outcome
    /\ UNCHANGED <<globals, status_reply, entry, text_query, files, all_text, content, source_info,
                   expert_persona, reads>>

\* Mutant of AvatarImageResponse: a failed image request is issued once more.
AvatarImageResponseRetries(i, r) ==
    /\ pc[i] = "av_image_call"
    /\ blocked = i
    /\ responses' = [responses EXCEPT ![i] = Append(@, r)]
    /\ IF ImageResult(i, r).status = "error" /\ Len(calls[i]) < 4
       THEN Issue(i, ImageRequest(image_prompt[i].v), "av_image_call")
            /\ UNCHANGED outcome
       ELSE Settle(i, ImageResult(i, r)) /\ blocked' = 0 /\ UNCHANGED calls
    /\ UNCHANGED <<globals, status_reply, entry, text_query, files, all_text, content, source_info,
                   expert_persona, persona_summary, image_prompt, reads>>

\* The image request returns r; lines 318-342.
AvatarImageResponse(i, r) ==
    /\ pc[i] = "av_image_call"
    /\ blocked = i
    /\ responses' = [responses EXCEPT ![i] = Append(@, r)]
    /\ blocked' = 0
    /\ Settle(i, ImageResult(i, r))
    /\ UNCHANGED <<globals, status_reply, entry, text_query, files, all_text, content, source_info,
                   expert_persona, persona_summary, image_prompt, calls, reads>>

\* The caller takes the returned dict; the invocation's frame is gone.
Return(i) ==
    /\ pc[i] = "done"
    /\ blocked = 0
    /\ pc' = [pc EXCEPT ![i] = "idle"]
    /\ entry' = [entry EXCEPT ![i] = "none"]
    /\ text_query' = [text_query EXCEPT ![i] = None]
    /\ files' = [files EXCEPT ![i] = <<>>]
    /\ all_text' = [all_text EXCEPT ![i] = <<>>]
    /\ content' = [content EXCEPT ![i] = None]
    /\ source_info' = [source_info EXCEPT ![i] = ""]
    /\ expert_persona' = [expert_persona EXCEPT ![i] = None]
    /\ persona_summary' = [persona_summary EXCEPT ![i] = None]
    /\ image_prompt' = [image_prompt EXCEPT ![i] = None]
    /\ calls' = [calls EXCEPT ![i] = <<>>]
    /\ responses' = [responses EXCEPT ![i] = <<>>]
    /\ reads' = [reads EXCEPT ![i] = 0]
    /\ outcome' = [outcome EXCEPT ![i] = NoOutcome]
    /\ UNCHANGED <<globals, status_reply, blocked>>

\* get_avatar_status(), lines 351-358: the dict it returns, or the KeyError of
\* the first CONFIG lookup that fails.
get_avatar_status ==
    LET chat == ConfigKeyError(CONFIG, "openai", <<"chat_model">>)
        image == ConfigKeyError(CONFIG, "together_ai", <<"image_model">>)
    IN  IF ~IsNone(chat) THEN Raise(chat.v)
        ELSE IF ~IsNone(image) THEN Raise(image.v)
        ELSE Ret([status |-> "ok",
                  message |-> "Avatar creation pipeline is operational",
                  chat_model |-> CONFIG.openai.chat_model,
                  image_model |-> CONFIG.together_ai.image_model])

\* A status query is served: pipeline_status calls get_avatar_status.
GetAvatarStatus ==
    /\ blocked = 0
    /\ status_reply' = get_avatar_status
    /\ UNCHANGED <<globals, blocked, pc, locals, calls, responses, outcome>>

\* ------------------------------------------------------ specification
\* The process serves one request at a time, in the first invocation slot.
Serial == { i \in Inv : \A j \in Inv : i <= j }

Next ==
    \/ \E i \in Serial, e \in EntryPoints, q \in TextQueries, fs \in FileLists :
          Call(i, e, q, fs)
    \/ \E i \in Serial : CreatePersonaOnlyBegin(i)
    \/ \E i \in Serial : CreateAvatarImageBegin(i)
    \/ \E i \in Serial : PdfStep(i)
    \/ \E i \in Serial : PdfDone(i)
    \/ \E i \in Serial, r \in ChatResponses : PersonaOnlyResponse(i, r)
    \/ \E i \in Serial, r \in ChatResponses : AvatarPersonaResponse(i, r)
    \/ \E i \in Serial, r \in ChatResponses : AvatarSummaryResponse(i, r)
    \/ \E i \in Serial, r \in ImageResponses : AvatarImageResponse(i, r)
    \/ \E i \in Serial : Return(i)
    \/ GetAvatarStatus

Spec == Init /\ [][Next]_vars

\* ---------------------------------------- concurrent specification
\* Several requests are in the process at once: every invocation slot is
\* stepped, on the one event-loop thread. The requests and the provider
\* behaviours are a few of those of Spec.
ConcRequests ==
    { [e |-> "create_avatar_image", q |-> Str("Construction defect case"), fs |-> <<>>],
      [e |-> "create_persona_only", q |-> Str("Construction defect case"), fs |-> <<>>],
      [e |-> "create_persona_only", q |-> None,
       fs |-> << [filename |-> "Notes.PDF", parses |-> TRUE, pages |-> <<"Site notes">>] >>],
      [e |-> "create_avatar_image", q |-> Str(""),
       fs |-> << [filename |-> "bad.pdf", parses |-> FALSE,
                  error |-> "EOF marker not found"] >>] }

ConcChatResponses ==
    { Raise("Request timed out."),
      [raised |-> FALSE, choices |-> <<"Dr. Ada Reyes, P.E.">>] }

ConcImageResponses ==
    { Raise("Read timed out. (read timeout=60)"),
      [raised |-> FALSE, status_code |-> 200, text |-> "{data: [..]}",
       json |-> [data |-> << [url |-> "https://img.example/1.png"],
                             [url |-> "https://img.example/2.png"] >>]] }

NextConc ==
    \/ \E i \in Inv, req \in ConcRequests : Call(i, req.e, req.q, req.fs)
    \/ \E i \in Inv : CreatePersonaOnlyBegin(i)
    \/ \E i \in Inv : CreateAvatarImageBegin(i)
    \/ \E i \in Inv : PdfStep(i)
    \/ \E i \in Inv : PdfDone(i)
    \/ \E i \in Inv, r \in ConcChatResponses : PersonaOnlyResponse(i, r)
    \/ \E i \in Inv, r \in ConcChatResponses : AvatarPersonaResponse(i, r)
    \/ \E i \in Inv, r \in ConcChatResponses : AvatarSummaryResponse(i, r)
    \/ \E i \in Inv, r \in ConcImageResponses : AvatarImageResponse(i, r)
    \/ \E i \in Inv : Return(i)
    \/ GetAvatarStatus

SpecConc == Init /\ [][NextConc]_vars

\* ------------------------------------------- paired specification
\* The requests of SpecConc's kind that both entry points are given alike: a
\* query alone, an upload alone, and neither.
PairRequests ==
    { [e |-> e, q |-> r.q, fs |-> r.fs] :
        e \in EntryPoints,
        r \in { [q |-> Str("Construction defect case"), fs |-> <<>>],
                [q |-> None,
                 fs |-> << [filename |-> "Notes.PDF", parses |-> TRUE,
                            pages |-> <<"Site notes">>] >>],
                [q |-> None, fs |-> <<>>] } }

NextPair ==
    \/ \E i \in Inv, req \in PairRequests : Call(i, req.e, req.q, req.fs)
    \/ \E i \in Inv : CreatePersonaOnlyBegin(i)
    \/ \E i \in Inv : CreateAvatarImageBegin(i)
    \/ \E i \in Inv : PdfStep(i)
    \/ \E i \in Inv : PdfDone(i)
    \/ \E i \in Inv, r \in ConcChatResponses : PersonaOnlyResponse(i, r)
    \/ \E i \in Inv, r \in ConcChatResponses : AvatarPersonaResponse(i, r)
    \/ \E i \in Inv, r \in ConcChatResponses : AvatarSummaryResponse(i, r)
    \/ \E i \in Inv, r \in ConcImageResponses : AvatarImageResponse(i, r)
    \/ \E i \in Inv : Return(i)
    \/ GetAvatarStatus

SpecPair == Init /\ [][NextPair]_vars

\* ------------------------------------------------ fair specification
\* What the code's scheduling guarantees of SpecConc: the event loop runs its
\* ready coroutines in turn, so one that is ready again and again is run, and
\* the image request comes back, with an answer or with the Timeout that
\* timeout=60 makes requests raise. The chat calls are issued with no timeout
\* argument, on a client built with none (lines 125, 135-143, 257, 268-276,
\* 285-293): nothing in the code makes them come back.
Fairness ==
    /\ \A i \in Inv : SF_vars(CreatePersonaOnlyBegin(i))
    /\ \A i \in Inv : SF_vars(CreateAvatarImageBegin(i))
    /\ \A i \in Inv : SF_vars(PdfStep(i))
    /\ \A i \in Inv : SF_vars(PdfDone(i))
    /\ \A i \in Inv : WF_vars(\E r \in ConcImageResponses : AvatarImageResponse(i, r))

SpecLive == Init /\ [][NextConc]_vars /\ Fairness

\* ------------------------------------------------- vocabulary of the properties
AvatarRun(i) == entry[i] = "create_avatar_image"
PersonaRun(i) == entry[i] = "create_persona_only"
Returned(i) == pc[i] = "done"

Contains(s, sub) ==
    \E k \in 1..(Len(s) - Len(sub) + 1) : SubSeq(s, k, k + Len(sub) - 1) = sub

IsChatRequest(req) == req.api = "chat.completions"
IsPersonaRequest(req) ==
    IsChatRequest(req) /\ req.system = EXPERT_WITNESS_SYSTEM_PROMPT
IsSummaryRequest(req) ==
    IsChatRequest(req) /\ req.system = PERSONA_SUMMARY_SYSTEM_PROMPT
IsImageRequest(req) == req.api = "images.generations"

\* A chat call failed: it raised, or its completion has no choice.
ChatFailed(r) == r.raised \/ r.choices = <<>>
\* An image call failed: it raised, answered with a non-success status, or
\* its body carries no image.
ImageFailed(r) ==
    \/ r.raised
    \/ r.status_code # 200
    \/ "data" \notin DOMAIN r.json
    \/ r.json.data = <<>>
\* The n-th provider call of invocation i has returned and failed.
CallFailed(i, n) ==
    /\ n <= Len(responses[i])
    /\ IF IsChatRequest(calls[i][n]) THEN ChatFailed(responses[i][n])
       ELSE ImageFailed(responses[i][n])

PersonaCalls(i) == { n \in 1..Len(calls[i]) : IsPersonaRequest(calls[i][n]) }
SummaryCalls(i) == { n \in 1..Len(calls[i]) : IsSummaryRequest(calls[i][n]) }
ImageCalls(i) == { n \in 1..Len(calls[i]) : IsImageRequest(calls[i][n]) }

DataKeys(out) == IF "data" \in DOMAIN out THEN DOMAIN out.data ELSE {}

\* ------------------------------------------------------------------ C1
\* C1: both entry points always return a dict whose status is ok or error, with
\* a message; every failure of a stage (extraction, unsupported file, missing
\* credential, provider exception, bad status, malformed response) ends the
\* invocation with status error instead of escaping as an exception.
C1_NeverRaises ==
    \A i \in Inv :
        /\ Returned(i) =>
              /\ outcome[i].status \in {"ok", "error"}
              /\ "message" \in DOMAIN outcome[i]
        /\ ~Returned(i) => outcome[i] = NoOutcome
        /\ \A n \in 1..Len(responses[i]) :
              CallFailed(i, n) => Returned(i) /\ outcome[i].status = "error"

\* An image-provider exception in the last stage came back as an error dict.
C1_Witness ==
    \E i \in Inv :
        /\ AvatarRun(i) /\ Returned(i)
        /\ Len(responses[i]) = 3 /\ responses[i][3].raised
        /\ outcome[i].status = "error"

\* ------------------------------------------------------------------ C2
\* C2: in create_avatar_image, once the persona call has failed no summary
\* or image call is ever issued, the run returns status error, and neither
\* persona_summary nor image_url is populated.
C2_PersonaFailureShortCircuits ==
    \A i \in Inv :
        /\ (AvatarRun(i) /\ CallFailed(i, 1)) =>
              /\ Len(calls[i]) = 1
              /\ Returned(i)
              /\ outcome[i].status = "error"
              /\ {"persona_summary", "image_url"} \cap DataKeys(outcome[i]) = {}
              /\ IsNone(persona_summary[i])
              /\ IsNone(image_prompt[i])
        \* The same when the persona stage ends the run before its call.
        /\ (AvatarRun(i) /\ Returned(i) /\ IsNone(expert_persona[i])) =>
              /\ SummaryCalls(i) = {} /\ ImageCalls(i) = {}
              /\ outcome[i].status = "error"
              /\ DataKeys(outcome[i]) = {}

C2_Witness ==
    \E i \in Inv : AvatarRun(i) /\ CallFailed(i, 1) /\ Returned(i)

\* ------------------------------------------------------------------ C3
\* C3: create_persona_only only ever issues persona requests (no summary,
\* no image request); its returned dict never has image_url or
\* persona_summary; when its status is ok it has persona and files_processed.
C3_PersonaOnlyHasNoImage ==
    \A i \in Inv :
        PersonaRun(i) =>
            /\ \A n \in 1..Len(calls[i]) : IsPersonaRequest(calls[i][n])
            /\ IsNone(persona_summary[i]) /\ IsNone(image_prompt[i])
            /\ Returned(i) =>
                  /\ {"persona_summary", "image_url"} \cap DataKeys(outcome[i]) = {}
                  /\ {"persona_summary", "image_url"} \cap DOMAIN outcome[i] = {}
                  /\ outcome[i].status = "ok" =>
                        {"persona", "files_processed"} \subseteq DataKeys(outcome[i])

C3_Witness ==
    \E i \in Inv :
        /\ PersonaRun(i) /\ Returned(i) /\ outcome[i].status = "ok"
        /\ files[i] # <<>>

\* ------------------------------------------------------------------ C4
\* C4: when create_avatar_image returns ok, persona, persona_summary and
\* image_url are all present (the persona call's first choice, the trimmed
\* first choice of the summary call, the first image's url) and
\* files_processed lists the uploaded filenames in upload order.
C4_OkAvatarIsComplete ==
    \A i \in Inv :
        (AvatarRun(i) /\ Returned(i) /\ outcome[i].status = "ok") =>
            LET data == outcome[i].data
            IN  /\ {"persona", "persona_summary", "image_url", "files_processed"}
                      \subseteq DOMAIN data
                /\ Len(responses[i]) = 3
                /\ data.persona = responses[i][1].choices[1]
                /\ data.persona_summary = Strip(responses[i][2].choices[1])
                /\ data.image_url = responses[i][3].json.data[1].url
                /\ Len(data.files_processed) = Len(files[i])
                /\ \A n \in 1..Len(files[i]) :
                      data.files_processed[n] = files[i][n].filename

C4_Witness ==
    \E i \in Inv :
        /\ AvatarRun(i) /\ Returned(i) /\ outcome[i].status = "ok"
        /\ Len(files[i]) = 2
        /\ files[i][1].filename # files[i][2].filename

\* ------------------------------------------------------------------ C5
\* C5: in create_avatar_image the provider calls are chained one after the
\* other: at most one is in flight; a summary request is the second call,
\* issued after the persona call returned a narrative, and carries that
\* narrative; an image request is the third call, issued after the summary
\* call returned, and its prompt embeds the trimmed summary.
C5_StagesChained ==
    \A i \in Inv :
        AvatarRun(i) =>
            /\ Len(calls[i]) - Len(responses[i]) \in {0, 1}
            /\ \A n \in 1..Len(calls[i]) :
                  LET req == calls[i][n]
                  IN  /\ IsPersonaRequest(req) => n = 1
                      /\ IsSummaryRequest(req) =>
                            /\ n = 2
                            /\ IsPersonaRequest(calls[i][1])
                            /\ ~ChatFailed(responses[i][1])
                            /\ req.user =
                                 PERSONA_SUMMARY_USER_PROMPT_TEMPLATE(
                                     responses[i][1].choices[1])
                      /\ IsImageRequest(req) =>
                            /\ n = 3
                            /\ IsSummaryRequest(calls[i][2])
                            /\ ~ChatFailed(responses[i][2])
                            /\ req.prompt =
                                 ImagePromptHead
                                   \o Strip(responses[i][2].choices[1])
                                   \o ImagePromptTail

\* All three calls were issued, and trimming the summary changed it.
C5_Witness ==
    \E i \in Inv :
        /\ AvatarRun(i) /\ Len(calls[i]) = 3
        /\ IsImageRequest(calls[i][3])
        /\ Strip(responses[i][2].choices[1]) # responses[i][2].choices[1]

Extractable(fs) ==
    \A n \in 1..Len(fs) :
        /\ fs[n].parses
        /\ Len(fs[n].filename) >= 4
        /\ Lower(SubSeq(fs[n].filename, Len(fs[n].filename) - 3,
                        Len(fs[n].filename))) = ".pdf"

OpenAIKeyMissing == "OPENAI_API_KEY" \notin DOMAIN environ

\* C7 as stated: whenever OPENAI_API_KEY is not set, create_persona_only
\* returns status error with a message naming the missing credential and
\* issues no provider call.
C7_MissingKeyAlwaysNamed ==
    \A i \in Inv :
        (PersonaRun(i) /\ OpenAIKeyMissing) =>
            /\ calls[i] = <<>>
            /\ Returned(i) =>
                  /\ outcome[i].status = "error"
                  /\ Contains(outcome[i].message, "OpenAI API key not found")

\* C7 as amended: whenever OPENAI_API_KEY is not set, create_persona_only
\* returns status error and issues no provider call; the message names the
\* missing credential when the request's documents (if any) were all
\* combined, and otherwise reports the document that failed.
C7_MissingKeyNamedAfterNormalization ==
    \A i \in Inv :
        (PersonaRun(i) /\ OpenAIKeyMissing) =>
            /\ calls[i] = <<>>
            /\ Returned(i) =>
                  /\ outcome[i].status = "error"
                  /\ DataKeys(outcome[i]) = {}
                  /\ Extractable(files[i]) =>
                        Contains(outcome[i].message, "OpenAI API key not found")
                  /\ ~Extractable(files[i]) =>
                        \E n \in 1..Len(files[i]) :
                            Contains(outcome[i].message, files[i][n].filename)

\* The key is missing, two documents were combined, the message names the key.
C7_Witness ==
    \E i \in Inv :
        /\ PersonaRun(i) /\ OpenAIKeyMissing /\ Returned(i)
        /\ Len(files[i]) = 2 /\ Extractable(files[i])
        /\ Contains(outcome[i].message, "OpenAI API key not found")

\* ------------------------------------------------------------------ C8
\* The filename ends in ".pdf", whatever the case of its letters.
HasPdfExtension(name) ==
    /\ Len(name) >= 4
    /\ Char(name, Len(name) - 3) = "."
    /\ Char(name, Len(name) - 2) \in {"p", "P"}
    /\ Char(name, Len(name) - 1) \in {"d", "D"}
    /\ Char(name, Len(name)) \in {"f", "F"}

HasNonPdf(fs) == \E n \in 1..Len(fs) : ~HasPdfExtension(fs[n].filename)

\* The position of the first document whose filename is not a PDF name.
FirstNonPdf(fs) ==
    CHOOSE n \in 1..Len(fs) :
        /\ ~HasPdfExtension(fs[n].filename)
        /\ \A m \in 1..(n - 1) : HasPdfExtension(fs[m].filename)

UnsupportedFileMessage(name) == "File " \o name \o " is not a PDF"

\* No failure precedes the suffix check of the first non-PDF document: the
\* credentials create_avatar_image checks first are set, and every document
\* before it parses.
NothingFailsBefore(i) ==
    /\ AvatarRun(i) => CredentialNames \subseteq DOMAIN environ
    /\ \A m \in 1..(FirstNonPdf(files[i]) - 1) : files[i][m].parses

\* C8 as stated: a request with a non-PDF filename at any position fails, in
\* both entry points, with the unsupported-file-type error and without any
\* provider call.
C8_NonPdfAlwaysUnsupportedError ==
    \A i \in Inv :
        (pc[i] # "idle" /\ HasNonPdf(files[i])) =>
            /\ calls[i] = <<>>
            /\ Returned(i) =>
                  /\ outcome[i].status = "error"
                  /\ EndsWith(outcome[i].message, " is not a PDF")

\* C8 as amended: a request with a non-PDF filename at any position returns
\* status error, in both entry points, without any provider call; the error
\* is the unsupported-file-type error naming the first such filename unless
\* an earlier failure is reported instead (a missing credential in
\* create_avatar_image, or the extraction failure of a document before it).
C8_NonPdfFailsWithoutCalls ==
    \A i \in Inv :
        (pc[i] # "idle" /\ HasNonPdf(files[i])) =>
            /\ calls[i] = <<>>
            /\ reads[i] < FirstNonPdf(files[i])
            /\ Returned(i) =>
                  /\ outcome[i].status = "error"
                  /\ NothingFailsBefore(i) =>
                        EndsWith(outcome[i].message,
                                 ": " \o UnsupportedFileMessage(
                                     files[i][FirstNonPdf(files[i])].filename))

\* The second document is the non-PDF one, after a PDF named in upper case.
C8_Witness ==
    \E i \in Inv :
        /\ Returned(i) /\ Len(files[i]) = 2
        /\ files[i][1].filename = "Notes.PDF"
        /\ ~HasPdfExtension(files[i][2].filename)
        /\ EndsWith(outcome[i].message,
                    UnsupportedFileMessage(files[i][2].filename))

\* ------------------------------------------------------------------ C9
EmptyRequest(i) == ~Truthy(text_query[i]) /\ files[i] = <<>>

\* C9: a request with neither text_query nor files (absent or empty) is
\* rejected by normalization: the entry point returns status error and
\* issues no provider call.
C9_EmptyInputRejected ==
    \A i \in Inv :
        (pc[i] # "idle" /\ EmptyRequest(i)) =>
            /\ calls[i] = <<>>
            /\ Returned(i) => outcome[i].status = "error"

\* ----------------------------------------------------------------- C10
SectionMarker(name) == "--- Content from " \o name \o " ---\n"
ExtractedText(file) == Strip(PageText(file.pages))
SectionLen(file) == Len(SectionMarker(file.filename)) + Len(ExtractedText(file))

RECURSIVE SectionStart(_, _)
\* Where the n-th document's section starts in the combined text: sections
\* follow one another, two newlines apart.
SectionStart(fs, n) ==
    IF n = 1 THEN 1 ELSE SectionStart(fs, n - 1) + SectionLen(fs[n - 1]) + 2

\* C10: with N >= 1 PDF documents and no text_query, source_info is
\* "from N PDF file(s)" and content is exactly the documents' sections in
\* upload order: each is the marker naming its file followed at once by that
\* file's extracted text, sections are two newlines apart, and nothing else
\* is in it (so the content is a function of the request alone).
C10_PdfOnlyContent ==
    \A i \in Inv :
        (files[i] # <<>> /\ ~Truthy(text_query[i]) /\ source_info[i] # "") =>
            LET fs == files[i]
                N == Len(fs)
                c == content[i].v
            IN  /\ source_info[i] = "from " \o IntStr(N) \o " PDF file(s)"
                /\ \A n \in 1..N :
                      LET at == SectionStart(fs, n)
                          marker == SectionMarker(fs[n].filename)
                          text == ExtractedText(fs[n])
                      IN  /\ SubSeq(c, at, at + Len(marker) - 1) = marker
                          /\ SubSeq(c, at + Len(marker), at + SectionLen(fs[n]) - 1)
                               = text
                          /\ n < N =>
                               SubSeq(c, at + SectionLen(fs[n]),
                                      at + SectionLen(fs[n]) + 1) = "\n\n"
                /\ Len(c) = SectionStart(fs, N) + SectionLen(fs[N]) - 1

\* Two different documents were combined and the persona request was issued.
C10_Witness ==
    \E i \in Inv :
        /\ Len(files[i]) = 2 /\ ~Truthy(text_query[i]) /\ source_info[i] # ""
        /\ files[i][1] # files[i][2]
        /\ ExtractedText(files[i][1]) # ""
        /\ Len(calls[i]) = 1

\* ----------------------------------------------------------------- C11
\* Text c holds, from position base to its end, exactly the sections of the
\* documents fs in upload order, two newlines apart.
SectionsFrom(c, fs, base) ==
    /\ \A n \in 1..Len(fs) :
          LET at == base + SectionStart(fs, n) - 1
              marker == SectionMarker(fs[n].filename)
          IN  /\ SubSeq(c, at, at + Len(marker) - 1) = marker
              /\ SubSeq(c, at + Len(marker), at + SectionLen(fs[n]) - 1)
                   = ExtractedText(fs[n])
              /\ n < Len(fs) =>
                   SubSeq(c, at + SectionLen(fs[n]), at + SectionLen(fs[n]) + 1)
                     = "\n\n"
    /\ Len(c) = base + SectionStart(fs, Len(fs)) + SectionLen(fs[Len(fs)]) - 2

\* C11: with a text_query and N >= 1 documents, in either entry point,
\* source_info is "from text query and N PDF file(s)" and content is
\* "Additional context: " and the query, two newlines, then the combined
\* document text; the persona request carries that content.
C11_QueryAndPdfContent ==
    \A i \in Inv :
        (files[i] # <<>> /\ Truthy(text_query[i]) /\ source_info[i] # "") =>
            LET head == "Additional context: " \o text_query[i].v
                c == content[i].v
            IN  /\ source_info[i] =
                     "from text query and " \o IntStr(Len(files[i])) \o " PDF file(s)"
                /\ SubSeq(c, 1, Len(head)) = head
                /\ SubSeq(c, Len(head) + 1, Len(head) + 2) = "\n\n"
                /\ SectionsFrom(c, files[i], Len(head) + 3)
                /\ \A n \in PersonaCalls(i) :
                      calls[i][n].user =
                        "Create a professional expert witness persona for this case: "
                          \o c

\* create_avatar_image combined a query and two documents and issued the
\* persona request.
C11_Witness ==
    \E i \in Inv :
        /\ AvatarRun(i) /\ Len(files[i]) = 2 /\ Truthy(text_query[i])
        /\ source_info[i] # "" /\ Len(calls[i]) >= 1
        /\ files[i][1] # files[i][2]

\* ----------------------------------------------------------------- C12
\* C12: with a text_query and no documents no upload is read; once the
\* request is normalized source_info is "from text query" and content is the
\* query unchanged, which is what the persona request carries; an ok dict
\* has an empty files_processed.
C12_TextOnlyContent ==
    \A i \in Inv :
        (pc[i] # "idle" /\ Truthy(text_query[i]) /\ files[i] = <<>>) =>
            /\ reads[i] = 0
            /\ all_text[i] = <<>>
            /\ source_info[i] # "" =>
                  /\ source_info[i] = "from text query"
                  /\ content[i] = text_query[i]
            /\ \A n \in PersonaCalls(i) :
                  calls[i][n].user =
                    "Create a professional expert witness persona for this case: "
                      \o text_query[i].v
            /\ (Returned(i) /\ outcome[i].status = "ok") =>
                  outcome[i].data.files_processed = <<>>

\* create_persona_only returned ok for the long query.
C12_Witness ==
    \E i \in Inv :
        /\ PersonaRun(i) /\ Returned(i) /\ outcome[i].status = "ok"
        /\ files[i] = <<>> /\ Truthy(text_query[i])
        /\ Len(text_query[i].v) > 200
        /\ Len(calls[i]) = 1

\* ----------------------------------------------------------------- C13
\* The stage at which a returned invocation stopped: the credential and CONFIG
\* lookups, the reading of the uploads, or the provider call it issued last.
FailedStage(i) ==
    IF calls[i] = <<>>
    THEN IF AvatarRun(i) /\ (~Truthy(getenv("OPENAI_API_KEY"))
                               \/ ~Truthy(getenv("TOGETHER_API_KEY")))
         THEN "configuration"
         ELSE IF Len(all_text[i]) < Len(files[i]) THEN "normalization"
         ELSE "configuration"
    ELSE IF Len(calls[i]) = 1 THEN "persona"
    ELSE IF Len(calls[i]) = 2 THEN "summary"
    ELSE "image"

ReturnedError(i) == Returned(i) /\ outcome[i].status = "error"

\* C13: the message of an error dict names the stage that failed: two
\* invocations that returned the same error message failed at the same stage.
C13_MessageNamesStage ==
    \A i, j \in Inv :
        (ReturnedError(i) /\ ReturnedError(j)
           /\ outcome[i].message = outcome[j].message) =>
            FailedStage(i) = FailedStage(j)

\* ----------------------------------------------------------------- C14
\* The n-th call of invocation i is an image request that was answered with a
\* success status and an empty list of images.
EmptyImageList(i, n) ==
    /\ n \in ImageCalls(i)
    /\ n <= Len(responses[i])
    /\ ~responses[i][n].raised
    /\ responses[i][n].status_code = 200
    /\ "data" \in DOMAIN responses[i][n].json
    /\ responses[i][n].json.data = <<>>

\* C14: an image response with a success status and an empty list of images
\* ends create_avatar_image with status error and no data (so no image_url);
\* an ok dict always carries a non-empty image_url, the first of the list.
C14_EmptyImageListIsError ==
    \A i \in Inv :
        /\ \A n \in 1..Len(calls[i]) :
              EmptyImageList(i, n) =>
                  /\ Returned(i)
                  /\ outcome[i].status = "error"
                  /\ "data" \notin DOMAIN outcome[i]
                  /\ n = Len(calls[i])
        /\ (AvatarRun(i) /\ Returned(i) /\ outcome[i].status = "ok") =>
              /\ outcome[i].data.image_url # ""
              /\ responses[i][Len(responses[i])].json.data # <<>>
              /\ outcome[i].data.image_url =
                    responses[i][Len(responses[i])].json.data[1].url

C14_Witness ==
    \E i \in Inv :
        /\ AvatarRun(i) /\ Returned(i)
        /\ Len(calls[i]) = 3
        /\ EmptyImageList(i, 3)
        /\ outcome[i].message = "Error creating avatar: list index out of range"

\* ----------------------------------------------------------------- C15
\* The CONFIG lookup that fails for the entry point of invocation i, or None.
MissingConfigValue(i) ==
    IF PersonaRun(i)
    THEN ConfigKeyError(CONFIG, "openai", <<"chat_model", "max_tokens", "temperature">>)
    ELSE AvatarConfigKeyError

\* C15: whatever the config file held, CONFIG has every section and key of
\* DEFAULT_CONFIG, get_avatar_status never raises and no invocation returns
\* the error of a missing configuration value.
C15_ConfigNeverFatal ==
    /\ \A section \in DOMAIN DEFAULT_CONFIG :
          /\ section \in DOMAIN CONFIG
          /\ DOMAIN DEFAULT_CONFIG[section] \subseteq DOMAIN CONFIG[section]
    /\ status_reply # NoReply => ~status_reply.raised
    /\ \A i \in Inv :
          (ReturnedError(i) /\ ~IsNone(MissingConfigValue(i))) =>
              outcome[i].message # EntryError(i, MissingConfigValue(i).v).message

\* ----------------------------------------------------------------- C16
\* C16: every image request takes its model, width, height and step count
\* from CONFIG (where CONFIG gives them) and asks for one image.
C16_ImageRequestFromConfig ==
    \A i \in Inv : \A n \in ImageCalls(i) :
        LET req == calls[i][n]
            cfg == CONFIG.together_ai
        IN  /\ req.model = cfg.image_model
            /\ req.n = 1
            /\ \A k \in {"width", "height", "steps"} :
                  k \in DOMAIN cfg => req[k] = cfg[k]

\* ----------------------------------------------------------------- C17
\* The document is not a parseable PDF.
Unparseable(file) == ~file.parses
\* The document parses and none of its pages has text.
Textless(file) ==
    file.parses /\ \A p \in 1..Len(file.pages) : Strip(file.pages[p]) = ""

\* C17: an invocation given a document that does not parse, or that parses
\* and has no text, issues no provider call, keeps no section for that
\* document and returns status error.
C17_UnextractableDocumentFails ==
    \A i \in Inv : \A n \in 1..Len(files[i]) :
        (Unparseable(files[i][n]) \/ Textless(files[i][n])) =>
            /\ calls[i] = <<>>
            /\ Len(all_text[i]) < n
            /\ Returned(i) => outcome[i].status = "error"

\* ----------------------------------------------------------------- C18
\* Invocation i has issued a provider call that has not returned.
InFlight(i) ==
    pc[i] \in {"gep_call", "av_persona_call", "av_summary_call", "av_image_call"}

\* Invocation j, which is not waiting for a provider, can take its next step.
CanStep(j) ==
    ENABLED (\/ CreatePersonaOnlyBegin(j)
             \/ CreateAvatarImageBegin(j)
             \/ PdfStep(j)
             \/ PdfDone(j)
             \/ Return(j))

\* C18: while one invocation has a provider call in flight, every other
\* invocation that has been called and is not itself waiting for a provider
\* can take its next step.
C18_ConcurrentProgress ==
    \A i, j \in Inv :
        (i # j /\ InFlight(i) /\ pc[j] \in {"start", "pdf", "done"}) => CanStep(j)

\* ----------------------------------------------------------------- C19
\* Everything invocation i holds.
Frame(i) ==
    <<pc[i], entry[i], text_query[i], files[i], all_text[i], content[i],
      source_info[i], expert_persona[i], persona_summary[i], image_prompt[i],
      calls[i], responses[i], reads[i], outcome[i]>>

RECURSIVE ProcessAll(_, _)
\* process_multiple_pdfs run on fs alone, from the sections so far.
ProcessAll(sections, fs) ==
    IF fs = <<>> THEN Ret(sections)
    ELSE LET r == ProcessOnePdf(sections, Head(fs))
         IN  IF r.raised THEN r ELSE ProcessAll(r.value, Tail(fs))

\* The ok dict of create_avatar_image from the request and the three answers.
AvatarOkDict(q, fs, src, persona, summary, prompt, url) ==
    [status |-> "ok",
     message |-> "Expert witness avatar created successfully " \o src,
     data |-> [persona |-> persona,
               persona_summary |-> summary,
               image_url |-> url,
               query |-> IF Truthy(q) THEN q.v ELSE "PDF content",
               files_processed |-> FilesProcessed(fs),
               models_used |-> [chat |-> CONFIG.openai.chat_model,
                                image |-> CONFIG.together_ai.image_model],
               image_prompt |-> prompt]]

\* The dict entry point e returns when it runs alone on (q, fs) and the
\* providers answer its calls with rs, in order.
RunAlone(e, q, fs, rs) ==
    LET pdf == ProcessAll(<<>>, fs)
        n == IF fs # <<>>
             THEN NormalizeWithFiles(q, fs, CombineSections(pdf.value))
             ELSE NormalizeTextOnly(q)
        kerr == ConfigKeyError(CONFIG, "openai",
                               <<"chat_model", "max_tokens", "temperature">>)
    IN  IF e = "create_persona_only"
        THEN IF pdf.raised THEN PersonaError(pdf.error)
             ELSE IF ~Truthy(getenv("OPENAI_API_KEY")) THEN MissingOpenAIKey
             ELSE IF ~IsNone(kerr) THEN PersonaError(kerr.v)
             ELSE WithFilesProcessed(PersonaResult(rs[1], n.content, n.source_info), fs)
        ELSE IF ~Truthy(getenv("OPENAI_API_KEY")) THEN MissingOpenAIKey
        ELSE IF ~Truthy(getenv("TOGETHER_API_KEY")) THEN MissingTogetherKey
        ELSE IF pdf.raised THEN AvatarError(pdf.error)
        ELSE IF ~IsNone(AvatarConfigKeyError) THEN AvatarError(AvatarConfigKeyError.v)
        ELSE IF rs[1].raised THEN AvatarError(rs[1].error)
        ELSE IF rs[1].choices = <<>> THEN AvatarError("list index out of range")
        ELSE IF rs[2].raised THEN AvatarError(rs[2].error)
        ELSE IF rs[2].choices = <<>> THEN AvatarError("list index out of range")
        ELSE LET summary == Strip(rs[2].choices[1])
                 r == rs[3]
             IN  IF r.raised THEN AvatarError(r.error)
                 ELSE IF r.status_code # HttpOk
                 THEN [status |-> "error",
                       message |-> "Together AI API error: " \o IntStr(r.status_code)
                                     \o " - " \o r.text]
                 ELSE IF "data" \notin DOMAIN r.json THEN AvatarError("'data'")
                 ELSE IF r.json.data = <<>> THEN AvatarError("list index out of range")
                 ELSE AvatarOkDict(q, fs, n.source_info, rs[1].choices[1], summary,
                                   get_simple_image_prompt(summary), r.json.data[1].url)

\* Every invocation that has returned holds the dict of its run alone.
OutcomeOfOwnRequest ==
    \A i \in Inv :
        Returned(i) =>
            outcome[i] = RunAlone(entry[i], text_query[i], files[i], responses[i])

\* C19: no step writes CONFIG or the environment, every step changes what at
\* most one invocation holds, and, however the invocations interleave, the
\* dict an invocation returns is the one it returns when run alone on its
\* request, the credentials, CONFIG and the answers to its own calls.
C19_NoSharedMutableState ==
    /\ [][ /\ globals' = globals
           /\ \E i \in Inv : \A j \in Inv \ {i} : Frame(j)' = Frame(j) ]_vars
    /\ []OutcomeOfOwnRequest

\* Two invocations of different entry points have both returned ok.
C19_Witness ==
    \E i, j \in Inv :
        /\ AvatarRun(i) /\ Returned(i) /\ outcome[i].status = "ok"
        /\ PersonaRun(j) /\ Returned(j) /\ outcome[j].status = "ok"
        /\ files[j] # <<>>

C21_ErrorCarriesNoPartialResult ==
    \A i \in Inv :
        ReturnedError(i) =>
            /\ DOMAIN outcome[i] = {"status", "message"}
            /\ DataKeys(outcome[i]) = {}

\* create_avatar_image generated the persona and the summary from an upload,
\* and the image provider answered with a non-success status.
C21_Witness ==
    \E i \in Inv :
        /\ AvatarRun(i) /\ ReturnedError(i)
        /\ Len(responses[i]) = 3
        /\ ~responses[i][3].raised /\ responses[i][3].status_code # 200
        /\ ~IsNone(expert_persona[i]) /\ ~IsNone(persona_summary[i])
        /\ files[i] # <<>>

\* ----------------------------------------------------------------- C22
TogetherKeyMissing == "TOGETHER_API_KEY" \notin DOMAIN environ

\* C22: create_avatar_image with a credential missing reads no upload,
\* normalizes nothing and issues no provider call; its first step returns
\* the error dict naming the missing credential (the chat credential when
\* both are missing), also when an upload is not a PDF.
C22_CredentialsCheckedFirst ==
    \A i \in Inv :
        (AvatarRun(i) /\ (OpenAIKeyMissing \/ TogetherKeyMissing)) =>
            /\ pc[i] \in {"start", "done"}
            /\ reads[i] = 0
            /\ all_text[i] = <<>>
            /\ IsNone(content[i])
            /\ calls[i] = <<>>
            /\ Returned(i) =>
                  outcome[i] = IF OpenAIKeyMissing THEN MissingOpenAIKey
                               ELSE MissingTogetherKey

\* The image credential alone is missing and the first upload is not a PDF.
C22_Witness ==
    \E i \in Inv :
        /\ AvatarRun(i) /\ Returned(i)
        /\ TogetherKeyMissing /\ ~OpenAIKeyMissing
        /\ files[i] # <<>> /\ ~IsPdfName(files[i][1].filename)
        /\ outcome[i] = MissingTogetherKey

\* ----------------------------------------------------------------- C23
\* Invocation i runs create_avatar_image and invocation j create_persona_only
\* on the same request, with both credentials set.
SameRequest(i, j) ==
    /\ AvatarRun(i) /\ PersonaRun(j)
    /\ text_query[i] = text_query[j]
    /\ files[i] = files[j]
    /\ ~OpenAIKeyMissing /\ ~TogetherKeyMissing

\* C23: on the same request the two entry points build the same content and
\* source_info and issue the same persona request; when the persona call is
\* answered alike and create_avatar_image returns ok, create_persona_only
\* returns ok with the same persona and the same files_processed.
C23_EntryPointsAgree ==
    \A i, j \in Inv :
        SameRequest(i, j) =>
            /\ (source_info[i] # "" /\ source_info[j] # "") =>
                  /\ content[i] = content[j]
                  /\ source_info[i] = source_info[j]
            /\ (calls[i] # <<>> /\ calls[j] # <<>>) => calls[i][1] = calls[j][1]
            /\ (/\ Returned(i) /\ outcome[i].status = "ok"
                /\ Returned(j)
                /\ responses[j] = <<>> \/ responses[j][1] = responses[i][1]) =>
                  /\ outcome[j].status = "ok"
                  /\ outcome[j].data.persona = outcome[i].data.persona
                  /\ outcome[j].data.files_processed = outcome[i].data.files_processed

====
